---- MODULE Spec2Model ----
(***************************************************************************)
(* Model of the API endpoint generator (generateApiEndpoints): the enum    *)
(* and type-alias passes that fill typeResolutionMap, the scan of the      *)
(* service classes and their methods, and the gated write of the manifest. *)
(* Strings the generator converts or compares character by character       *)
(* (method names, endpoint literals) are sequences of one-character        *)
(* strings; names it only uses as keys are TLA+ strings.                    *)
(***************************************************************************)
EXTENDS Integers, Sequences, FiniteSets, Bags, TLC

VARIABLES
    pc,                 \* loop the run is in: "enums", "aliases", "classes", "methods", or ended: "done", "crashed"
    errorCount,         \* let errorCount
    typeResolutionMap,  \* Map<string, string>
    result,             \* Record<base, Record<endpoint, {params, return}>>
    usedEndpoints,      \* Set<string> of the class being scanned
    baseName,           \* base literal of the class being scanned
    outputFile,         \* contents of OUTPUT_FILE on disk
    dirExists,          \* whether dirname(OUTPUT_FILE) exists
    exitCode,           \* exit status of the process
    writeCalls,         \* number of fs.writeFileSync calls made
    stdout,             \* bag of "Parsed method" lines
    stderr,             \* bag of console.error lines
    nClasses,           \* classes visited so far
    nMethods,           \* methods visited so far
    enumsSeen,          \* enum declarations visited so far
    aliasesSeen         \* type alias declarations visited so far

vars == <<pc, errorCount, typeResolutionMap, result, usedEndpoints, baseName,
          outputFile, dirExists, exitCode, writeCalls, stdout, stderr,
          nClasses, nMethods, enumsSeen, aliasesSeen>>

-----------------------------------------------------------------------------
(* Bounds of the model *)

MaxClasses == 2
MaxMethods == 3
MaxEnums == 2
MaxAliases == 2
MaxMembers == 2
MaxNameLen == 3
MaxTypedClasses == 1
MaxTypedMethods == 1
MaxNamedClasses == 1
MaxNamedMethods == 1

-----------------------------------------------------------------------------
(* Characters and strings *)

LowerSeq == <<"a","b","c","d","e","f","g","h","i","j","k","l","m",
              "n","o","p","q","r","s","t","u","v","w","x","y","z">>
UpperSeq == <<"A","B","C","D","E","F","G","H","I","J","K","L","M",
              "N","O","P","Q","R","S","T","U","V","W","X","Y","Z">>
LowerChars == {LowerSeq[i] : i \in DOMAIN LowerSeq}
UpperChars == {UpperSeq[i] : i \in DOMAIN UpperSeq}
DigitChars == {"0","1","2","3","4","5","6","7","8","9"}

ToLowerChar(c) ==
    IF c \in UpperChars
    THEN LowerSeq[CHOOSE i \in DOMAIN UpperSeq : UpperSeq[i] = c]
    ELSE c

toLowerCase(s) == [i \in DOMAIN s |-> ToLowerChar(s[i])]

(* str.replace(/([a-z0-9]|(?=[A-Z]))([A-Z])/g, "$1-$2"): the scan from       *)
(* position i. The first alternative consumes a lowercase letter or digit    *)
(* followed by a capital; the second is the empty lookahead before a capital.*)
RECURSIVE ReplaceFrom(_, _)
ReplaceFrom(s, i) ==
    IF i > Len(s) THEN << >>
    ELSE IF i < Len(s) /\ s[i] \in (LowerChars \cup DigitChars) /\ s[i+1] \in UpperChars
         THEN <<s[i], "-", s[i+1]>> \o ReplaceFrom(s, i + 2)
    ELSE IF s[i] \in UpperChars
         THEN <<"-", s[i]>> \o ReplaceFrom(s, i + 1)
    ELSE <<s[i]>> \o ReplaceFrom(s, i + 1)

(* The replacement without the lookahead alternative: /([a-z0-9])([A-Z])/g *)
RECURSIVE ReplaceNoLookaheadFrom(_, _)
ReplaceNoLookaheadFrom(s, i) ==
    IF i > Len(s) THEN << >>
    ELSE IF i < Len(s) /\ s[i] \in (LowerChars \cup DigitChars) /\ s[i+1] \in UpperChars
         THEN <<s[i], "-", s[i+1]>> \o ReplaceNoLookaheadFrom(s, i + 2)
    ELSE <<s[i]>> \o ReplaceNoLookaheadFrom(s, i + 1)

toKebabCaseNoLookahead(str) == toLowerCase(ReplaceNoLookaheadFrom(str, 1))

toKebabCase(str) == toLowerCase(ReplaceFrom(str, 1))

-----------------------------------------------------------------------------
(* Program constants *)

API_SERVICE_BASE_CLASS == "Service"
packageVersion == "1.0.0"

(* The pattern relaxed to /^Promise<(.+)>$/ *)
IsApiReturnTypeAnyPromise(returnType) ==
    /\ Len(returnType) >= 3
    /\ returnType[1] \in {"Promise<Result<", "Promise<"}
    /\ returnType[Len(returnType)] \in {">>", ">"}

(* /^Promise<Result<(.+)>>$/ on the return type text, given as its tokens:   *)
(* the opening "Promise<Result<", the payload, the closing ">>".              *)
IsApiReturnType(returnType) ==
    /\ Len(returnType) >= 3
    /\ returnType[1] = "Promise<Result<"
    /\ returnType[Len(returnType)] = ">>"

ReturnTypeT(returnType) == SubSeq(returnType, 2, Len(returnType) - 1)

-----------------------------------------------------------------------------
(* Maps *)

EmptyMap == << >>
MapSet(m, k, v) == [x \in (DOMAIN m) \cup {k} |-> IF x = k THEN v ELSE m[x]]
MapHas(m, k) == k \in DOMAIN m

-----------------------------------------------------------------------------
(* The type passes *)

(* for (const member of enumDec.getMembers()) { ... break } : the scan of    *)
(* the members' initializers from member i, each given by its node kind      *)
(* ("none" when the member has no initializer).                               *)
RECURSIVE IsNumericFrom(_, _)
IsNumericFrom(members, i) ==
    IF i > Len(members) THEN TRUE
    ELSE IF members[i] # "none" /\ members[i] # "NumericLiteral" THEN FALSE
    ELSE IsNumericFrom(members, i + 1)

EnumType(enumDec) == IF IsNumericFrom(enumDec.members, 1) THEN "number" ELSE "string"

AnalyzeEnum(enumDec) ==
    /\ pc = "enums"
    /\ enumDec \notin enumsSeen
    /\ typeResolutionMap' = MapSet(typeResolutionMap, enumDec.name, EnumType(enumDec))
    /\ enumsSeen' = enumsSeen \cup {enumDec}
    /\ UNCHANGED <<pc, errorCount, result, usedEndpoints, baseName, outputFile,
                   dirExists, exitCode, writeCalls, stdout, stderr, nClasses,
                   nMethods, aliasesSeen>>

AliasResolution(kind) ==
    IF kind = "StringKeyword" \/ kind = "TemplateLiteralType" THEN "string"
    ELSE IF kind = "NumberKeyword" THEN "number"
    ELSE "unmapped"

AnalyzeTypeAlias(typeAlias) ==
    /\ pc \in {"enums", "aliases"}
    /\ typeAlias \notin aliasesSeen
    /\ pc' = "aliases"
    /\ typeResolutionMap' =
          IF AliasResolution(typeAlias.kind) = "unmapped"
          THEN typeResolutionMap
          ELSE MapSet(typeResolutionMap, typeAlias.name, AliasResolution(typeAlias.kind))
    /\ aliasesSeen' = aliasesSeen \cup {typeAlias}
    /\ UNCHANGED <<errorCount, result, usedEndpoints, baseName, outputFile,
                   dirExists, exitCode, writeCalls, stdout, stderr, nClasses,
                   nMethods, enumsSeen>>

-----------------------------------------------------------------------------
(* The scan of the service classes *)

Scanning == pc \in {"enums", "aliases", "classes", "methods"}

ErrorLine(kind, service, methodName, endpoint) ==
    [kind |-> kind, service |-> service, method |-> methodName, endpoint |-> endpoint]

Log(bag, line) == bag (+) SetToBag({line})

(* BeginClass with process.exit(1) in place of `continue` after a missing or *)
(* non-literal base                                                           *)
BeginClassFailFast(classDec) ==
    /\ Scanning
    /\ nClasses' = nClasses + 1
    /\ usedEndpoints' = {}
    /\ IF classDec.extends # API_SERVICE_BASE_CLASS
       THEN /\ pc' = "classes"
            /\ baseName' = ""
            /\ UNCHANGED <<errorCount, result, stderr, exitCode>>
       ELSE IF classDec.base.property = "absent" \/ classDec.base.initializer # "StringLiteral"
       THEN /\ pc' = "done"
            /\ exitCode' = 1
            /\ baseName' = ""
            /\ errorCount' = errorCount + 1
            /\ stderr' = Log(stderr, ErrorLine("no-base", classDec.name, << >>, << >>))
            /\ UNCHANGED result
       ELSE /\ pc' = "methods"
            /\ baseName' = classDec.base.text
            /\ result' = MapSet(result, classDec.base.text, EmptyMap)
            /\ UNCHANGED <<errorCount, stderr, exitCode>>
    /\ UNCHANGED <<typeResolutionMap, outputFile, dirExists, writeCalls,
                   stdout, nMethods, enumsSeen, aliasesSeen>>

(* A class is [name, extends, base]; base is the 'base' property:            *)
(* "absent", or "present" with the node kind of its initializer ("none" when  *)
(* it has no initializer) and the initializer's literal text.                 *)
BeginClass(classDec) ==
    /\ Scanning
    /\ nClasses' = nClasses + 1
    /\ usedEndpoints' = {}
    /\ IF classDec.extends # API_SERVICE_BASE_CLASS
       THEN /\ pc' = "classes"
            /\ baseName' = ""
            /\ UNCHANGED <<errorCount, result, stderr>>
       ELSE IF classDec.base.property = "absent"
       THEN /\ pc' = "classes"
            /\ baseName' = ""
            /\ errorCount' = errorCount + 1
            /\ stderr' = Log(stderr, ErrorLine("no-base", classDec.name, << >>, << >>))
            /\ UNCHANGED result
       ELSE IF classDec.base.initializer # "StringLiteral"
       THEN /\ pc' = "classes"
            /\ baseName' = ""
            /\ errorCount' = errorCount + 1
            /\ stderr' = Log(stderr, ErrorLine("base-not-literal", classDec.name, << >>, << >>))
            /\ UNCHANGED result
       ELSE /\ pc' = "methods"
            /\ baseName' = classDec.base.text
            /\ result' = MapSet(result, classDec.base.text, EmptyMap)
            /\ UNCHANGED <<errorCount, stderr>>
    /\ UNCHANGED <<typeResolutionMap, outputFile, dirExists, exitCode, writeCalls,
                   stdout, nMethods, enumsSeen, aliasesSeen>>

NoLiteral == [kind |-> "undefined", text |-> << >>]

(* findEndpointInMethod: the first call, in document order from call i, on   *)
(* a property of `this` whose first argument is a string literal.            *)
RECURSIVE FindEndpointFrom(_, _)
FindEndpointFrom(callExpressions, i) ==
    IF i > Len(callExpressions) THEN NoLiteral
    ELSE LET callExpr == callExpressions[i] IN
         IF /\ callExpr.expression = "PropertyAccessExpression"
            /\ callExpr.target = "ThisKeyword"
            /\ Len(callExpr.args) > 0
            /\ callExpr.args[1].kind = "StringLiteral"
         THEN callExpr.args[1]
         ELSE FindEndpointFrom(callExpressions, i + 1)

findEndpointInMethod(method) == FindEndpointFrom(method.calls, 1)

(* typeResolutionMap.get(typeNodeText) ?? typeNodeText *)
ResolveType(map, typeNodeText) ==
    IF MapHas(map, typeNodeText) THEN map[typeNodeText] ELSE typeNodeText

(* The loop over method.getParameters() from parameter i *)
RECURSIVE ParamsFrom(_, _, _, _)
ParamsFrom(map, parameters, i, paramsObject) ==
    IF i > Len(parameters) THEN paramsObject
    ELSE ParamsFrom(map, parameters, i + 1,
                    MapSet(paramsObject, parameters[i].name,
                           ResolveType(map, parameters[i].type)))

(* p.getTypeNodeOrThrow() throws for a parameter without a type annotation *)
HasUntypedParameter(method) ==
    \E i \in DOMAIN method.params : method.params[i].type = ""

ParsedLine(service, methodName, endpoint) ==
    [service |-> service, method |-> methodName, endpoint |-> endpoint]

AnalyzeMethod(method) ==
    /\ pc = "methods"
    /\ nMethods' = nMethods + 1
    /\ IF ~IsApiReturnType(method.returnType)
       THEN UNCHANGED <<pc, errorCount, result, usedEndpoints, exitCode, stdout, stderr>>
       ELSE LET endpointLiteral == findEndpointInMethod(method) IN
            IF endpointLiteral = NoLiteral
            THEN /\ errorCount' = errorCount + 1
                 /\ stderr' = Log(stderr, ErrorLine("no-endpoint", baseName, method.name, << >>))
                 /\ UNCHANGED <<pc, result, usedEndpoints, exitCode, stdout>>
            ELSE LET endpoint == endpointLiteral.text
                     duplicate == endpoint \in usedEndpoints
                     misnamed == endpoint # toKebabCase(method.name)
                     afterDup == IF duplicate
                                 THEN Log(stderr, ErrorLine("duplicate", baseName, method.name, endpoint))
                                 ELSE stderr
                     afterName == IF misnamed
                                  THEN Log(afterDup, ErrorLine("naming", baseName, method.name, endpoint))
                                  ELSE afterDup
                 IN
                 /\ errorCount' = errorCount + (IF duplicate THEN 1 ELSE 0)
                                             + (IF misnamed THEN 1 ELSE 0)
                 /\ usedEndpoints' = usedEndpoints \cup {endpoint}
                 /\ IF HasUntypedParameter(method)
                    THEN /\ pc' = "crashed"
                         /\ exitCode' = 1
                         /\ stderr' = Log(afterName, ErrorLine("unexpected", baseName, method.name, endpoint))
                         /\ UNCHANGED <<result, stdout>>
                    ELSE /\ result' = [result EXCEPT ![baseName] =
                                MapSet(@, endpoint,
                                       [params |-> ParamsFrom(typeResolutionMap, method.params, 1, EmptyMap),
                                        return |-> ReturnTypeT(method.returnType)])]
                         /\ stdout' = Log(stdout, ParsedLine(baseName, method.name, endpoint))
                         /\ stderr' = afterName
                         /\ UNCHANGED <<pc, exitCode>>
    /\ UNCHANGED <<typeResolutionMap, baseName, outputFile, dirExists, writeCalls,
                   nClasses, enumsSeen, aliasesSeen>>

-----------------------------------------------------------------------------
(* The end of the run *)

(* if (errorCount > 0) { ...; process.exit(1) } *)
HaltOnErrors ==
    /\ Scanning
    /\ errorCount > 0
    /\ pc' = "done"
    /\ exitCode' = 1
    /\ UNCHANGED <<errorCount, typeResolutionMap, result, usedEndpoints, baseName,
                   outputFile, dirExists, writeCalls, stdout, stderr, nClasses,
                   nMethods, enumsSeen, aliasesSeen>>

Manifest == [kind |-> "manifest", version |-> packageVersion, endpoints |-> result]

(* WriteManifest without the errorCount gate before it *)
WriteManifestUngated ==
    /\ Scanning
    /\ dirExists' = TRUE
    /\ outputFile' = Manifest
    /\ writeCalls' = writeCalls + 1
    /\ pc' = "done"
    /\ UNCHANGED <<errorCount, typeResolutionMap, result, usedEndpoints, baseName,
                   exitCode, stdout, stderr, nClasses, nMethods, enumsSeen, aliasesSeen>>

(* mkdirSync (when the directory is absent) and writeFileSync both succeed *)
WriteManifest ==
    /\ Scanning
    /\ errorCount = 0
    /\ dirExists' = TRUE
    /\ outputFile' = Manifest
    /\ writeCalls' = writeCalls + 1
    /\ pc' = "done"
    /\ UNCHANGED <<errorCount, typeResolutionMap, result, usedEndpoints, baseName,
                   exitCode, stdout, stderr, nClasses, nMethods, enumsSeen, aliasesSeen>>

(* WriteFails with a catch block that logs and returns *)
WriteFailsExitZero(failure) ==
    /\ Scanning
    /\ errorCount = 0
    /\ failure = "mkdir" => ~dirExists
    /\ dirExists' = IF failure = "mkdir" THEN dirExists ELSE TRUE
    /\ writeCalls' = IF failure = "mkdir" THEN writeCalls ELSE writeCalls + 1
    /\ outputFile' = IF failure = "write" THEN [kind |-> "partial"] ELSE outputFile
    /\ stderr' = Log(stderr, ErrorLine("write-failed", "", << >>, << >>))
    /\ pc' = "done"
    /\ UNCHANGED <<errorCount, typeResolutionMap, result, usedEndpoints, baseName,
                   exitCode, stdout, nClasses, nMethods, enumsSeen, aliasesSeen>>

(* The catch block: mkdirSync throws ("mkdir"), or writeFileSync throws       *)
(* before it opened the file ("open") or after it truncated it ("write").     *)
WriteFails(failure) ==
    /\ Scanning
    /\ errorCount = 0
    /\ failure = "mkdir" => ~dirExists
    /\ dirExists' = IF failure = "mkdir" THEN dirExists ELSE TRUE
    /\ writeCalls' = IF failure = "mkdir" THEN writeCalls ELSE writeCalls + 1
    /\ outputFile' = IF failure = "write" THEN [kind |-> "partial"] ELSE outputFile
    /\ stderr' = Log(stderr, ErrorLine("write-failed", "", << >>, << >>))
    /\ pc' = "done"
    /\ exitCode' = 1
    /\ UNCHANGED <<errorCount, typeResolutionMap, result, usedEndpoints, baseName,
                   stdout, nClasses, nMethods, enumsSeen, aliasesSeen>>

WriteFailures == {"mkdir", "open", "write"}

-----------------------------------------------------------------------------
(* The state when generateApiEndpoints starts: nothing analyzed, and on disk *)
(* no output directory, an empty one, or the manifest of an earlier run.     *)

Init ==
    /\ pc = "enums"
    /\ errorCount = 0
    /\ typeResolutionMap = EmptyMap
    /\ result = EmptyMap
    /\ usedEndpoints = {}
    /\ baseName = ""
    /\ \E disk \in {<<FALSE, "absent">>, <<TRUE, "absent">>, <<TRUE, "old">>} :
          /\ dirExists = disk[1]
          /\ outputFile = [kind |-> disk[2]]
    /\ exitCode = 0
    /\ writeCalls = 0
    /\ stdout = EmptyBag
    /\ stderr = EmptyBag
    /\ nClasses = 0
    /\ nMethods = 0
    /\ enumsSeen = {}
    /\ aliasesSeen = {}

-----------------------------------------------------------------------------
(* Inputs: the declarations a project may hold *)

StringLiteral(chars) == [kind |-> "StringLiteral", text |-> chars]
Identifier == [kind |-> "Identifier", text |-> << >>]
ObjectLiteral == [kind |-> "ObjectLiteralExpression", text |-> << >>]

ThisCall(args) == [expression |-> "PropertyAccessExpression", target |-> "ThisKeyword", args |-> args]
SuperCall(args) == [expression |-> "PropertyAccessExpression", target |-> "SuperKeyword", args |-> args]
StaticCall(args) == [expression |-> "PropertyAccessExpression", target |-> "Identifier", args |-> args]

PromiseResult(payload) == <<"Promise<Result<", payload, ">>">>
PromiseAny == <<"Promise<", "any", ">">>

Method(name, returnType, calls, params) ==
    [name |-> name, returnType |-> returnType, calls |-> calls, params |-> params]

s_getId == <<"g","e","t","I","d">>
s_getName == <<"g","e","t","N","a","m","e">>
s_fetchId == <<"f","e","t","c","h","I","d">>
s_lookup == <<"l","o","o","k","u","p">>
s_request == <<"r","e","q","u","e","s","t">>
s_reload == <<"r","e","l","o","a","d">>
s_setDue == <<"s","e","t","D","u","e">>
s_setEase == <<"s","e","t","E","a","s","e">>
s_get_id == <<"g","e","t","-","i","d">>
s_get_name == <<"g","e","t","-","n","a","m","e">>
s_set_due == <<"s","e","t","-","d","u","e">>
s_set_ease == <<"s","e","t","-","e","a","s","e">>

(* deck.ts: getId, getName and the request override; the others are the      *)
(* shapes the scan tells apart.                                                *)
m_getId == Method(s_getId, PromiseResult("number"),
                  <<StaticCall(<<ObjectLiteral>>), ThisCall(<<StringLiteral(s_get_id)>>)>>, << >>)
m_getName == Method(s_getName, PromiseResult("string"),
                    <<ThisCall(<<StringLiteral(s_get_name)>>)>>, << >>)
m_fetchId == Method(s_fetchId, PromiseResult("number"),
                    <<ThisCall(<<StringLiteral(s_get_id)>>)>>, << >>)
m_lookup == Method(s_lookup, PromiseResult("boolean"),
                   <<ThisCall(<<Identifier>>)>>, << >>)
m_request == Method(s_request, PromiseAny,
                    <<SuperCall(<<Identifier, ObjectLiteral>>)>>,
                    <<[name |-> "endpoint", type |-> "string"]>>)
m_reload == Method(s_reload, PromiseAny,
                   <<ThisCall(<<StringLiteral(s_get_id)>>)>>, << >>)
m_setDue == Method(s_setDue, PromiseResult("void"),
                   <<ThisCall(<<StringLiteral(s_set_due), ObjectLiteral>>)>>,
                   <<[name |-> "days", type |-> ""]>>)
m_setEase(typeName) == Method(s_setEase, PromiseResult("void"),
                              <<ThisCall(<<StringLiteral(s_set_ease), ObjectLiteral>>)>>,
                              <<[name |-> "ease", type |-> typeName]>>)

ScanMethods == {m_getId, m_getName, m_fetchId, m_lookup, m_request, m_reload,
                m_setDue}

Class(name, extends, base) == [name |-> name, extends |-> extends, base |-> base]
BaseLiteral(text) == [property |-> "present", initializer |-> "StringLiteral", text |-> text]
BaseAbsent == [property |-> "absent", initializer |-> "none", text |-> ""]
BaseOther(kind) == [property |-> "present", initializer |-> kind, text |-> ""]

ScanClasses == {Class("Deck", "Service", BaseLiteral("deck")),
                Class("FilteredDeck", "Service", BaseLiteral("deck")),
                Class("NoteType", "Service", BaseLiteral("note-type")),
                Class("Card", "Service", BaseAbsent),
                Class("Note", "Service", BaseOther("none")),
                Class("Tag", "Service", BaseOther("NoSubstitutionTemplateLiteral")),
                Class("Cache", "Object", BaseLiteral("deck"))}

Enum(name, members) == [name |-> name, members |-> members]
Alias(name, kind) == [name |-> name, kind |-> kind]

ScanEnums == {Enum("Ease", <<"NumericLiteral", "none">>)}
ScanAliases == {Alias("Id", "NumberKeyword")}

-----------------------------------------------------------------------------
(* The run of the generator over a project of at most MaxEnums enums,        *)
(* MaxAliases aliases and MaxClasses classes with MaxMethods methods in all   *)

Next ==
    \/ \E enumDec \in ScanEnums :
          Cardinality(enumsSeen) < MaxEnums /\ AnalyzeEnum(enumDec)
    \/ \E typeAlias \in ScanAliases :
          Cardinality(aliasesSeen) < MaxAliases /\ AnalyzeTypeAlias(typeAlias)
    \/ \E classDec \in ScanClasses :
          nClasses < MaxClasses /\ BeginClass(classDec)
    \/ \E method \in ScanMethods :
          nMethods < MaxMethods /\ AnalyzeMethod(method)
    \/ HaltOnErrors
    \/ WriteManifest
    \/ \E failure \in WriteFailures : WriteFails(failure)

Spec == Init /\ [][Next]_vars

-----------------------------------------------------------------------------
(* The type passes over a project of colliding and non-colliding enum and    *)
(* alias names, followed by the scan of one service class whose methods      *)
(* take a parameter of a declared type                                        *)

EnumInitializers == {"none", "NumericLiteral", "StringLiteral"}
AliasKinds == {"StringKeyword", "TemplateLiteralType", "NumberKeyword",
               "LiteralType", "UnionType"}

MemberLists == UNION {[1..n -> EnumInitializers] : n \in 0..MaxMembers}

TypeEnums == {Enum(name, members) : name \in {"Ease", "Id"}, members \in MemberLists}
TypeAliases == {Alias(name, kind) : name \in {"Id", "Tag"}, kind \in AliasKinds}
TypeClasses == {Class("Deck", "Service", BaseLiteral("deck")),
                Class("Card", "Service", BaseAbsent)}
TypeMethods == {m_setEase(typeName) : typeName \in {"Ease", "Id", "Tag", "boolean"}}

TypeNext ==
    \/ \E enumDec \in TypeEnums :
          Cardinality(enumsSeen) < MaxEnums /\ AnalyzeEnum(enumDec)
    \/ \E typeAlias \in TypeAliases :
          Cardinality(aliasesSeen) < MaxAliases /\ AnalyzeTypeAlias(typeAlias)
    \/ \E classDec \in TypeClasses :
          nClasses < MaxTypedClasses /\ BeginClass(classDec)
    \/ \E method \in TypeMethods :
          nMethods < MaxTypedMethods /\ AnalyzeMethod(method)
    \/ HaltOnErrors
    \/ WriteManifest
    \/ \E failure \in WriteFailures : WriteFails(failure)

TypeSpec == Init /\ [][TypeNext]_vars

-----------------------------------------------------------------------------
(* The scan of one service class whose methods have every name of at most    *)
(* MaxNameLen characters over NameChars, each with an endpoint literal that   *)
(* hyphenates the lowercased name before its capitals or at its boundaries    *)

NameChars == {"a", "A", "1"}
Names == UNION {[1..n -> NameChars] : n \in 1..MaxNameLen}

(* s in lowercase with a hyphen before each position of `positions` *)
RECURSIVE HyphenateFrom(_, _, _)
HyphenateFrom(s, positions, i) ==
    IF i > Len(s) THEN << >>
    ELSE (IF i \in positions THEN <<"-">> ELSE << >>)
         \o <<ToLowerChar(s[i])>> \o HyphenateFrom(s, positions, i + 1)

Hyphenate(s, positions) == HyphenateFrom(s, positions, 1)

Letters == LowerChars \cup UpperChars

CapitalPositions(s) == {i \in DOMAIN s : s[i] \in UpperChars}

BoundaryPositions(s) ==
    {i \in DOMAIN s : /\ i > 1
                      /\ \/ s[i-1] \in LowerChars /\ s[i] \in UpperChars
                         \/ s[i-1] \in Letters /\ s[i] \in DigitChars}

NamedMethods ==
    {Method(name, PromiseResult("string"), <<ThisCall(<<StringLiteral(endpoint)>>)>>, << >>) :
        <<name, endpoint>> \in
            UNION {{<<n, Hyphenate(n, CapitalPositions(n))>>,
                    <<n, Hyphenate(n, BoundaryPositions(n))>>} : n \in Names}}

NamedClasses == {Class("Deck", "Service", BaseLiteral("deck"))}

NamingNext ==
    \/ \E classDec \in NamedClasses :
          nClasses < MaxNamedClasses /\ BeginClass(classDec)
    \/ \E method \in NamedMethods :
          nMethods < MaxNamedMethods /\ AnalyzeMethod(method)
    \/ HaltOnErrors
    \/ WriteManifest
    \/ \E failure \in WriteFailures : WriteFails(failure)

NamingSpec == Init /\ [][NamingNext]_vars

-----------------------------------------------------------------------------
(* Properties *)

Lines(bag) == BagToSet(bag)

(* Number of lines of the bag that satisfy P *)
CountLines(bag, P(_)) ==
    BagCardinality([line \in {l \in Lines(bag) : P(l)} |-> bag[line]])

ManifestWritten == outputFile.kind = "manifest"
Ended == pc \in {"done", "crashed"}

IsCountedError(line) ==
    line.kind \in {"no-base", "base-not-literal", "no-endpoint", "duplicate", "naming"}

NamingError(parsed) == ErrorLine("naming", parsed.service, parsed.method, parsed.endpoint)

(* The canonical form as the specification words it: a hyphen at each       *)
(* lowercase-to-uppercase and each letter-to-digit boundary, then lowercase. *)
BoundaryKebab(name) == Hyphenate(name, BoundaryPositions(name))

(* The canonical form with a hyphen before every capital, then lowercase. *)
CapitalKebab(name) == Hyphenate(name, CapitalPositions(name))

(* The naming check with `Canon` as the canonical form: a parsed method has  *)
(* as many naming errors as parsed lines when its endpoint differs from the  *)
(* canonical form of its name and none when it equals it, and every endpoint *)
(* of a written manifest is the canonical form of a parsed method's name.    *)
NamingCheckedBy(Canon(_)) ==
    /\ \A parsed \in Lines(stdout) :
          CopiesIn(NamingError(parsed), stderr) =
             IF parsed.endpoint = Canon(parsed.method) THEN 0 ELSE CopiesIn(parsed, stdout)
    /\ ManifestWritten =>
          \A base \in DOMAIN outputFile.endpoints :
             \A endpoint \in DOMAIN outputFile.endpoints[base] :
                \E parsed \in Lines(stdout) :
                   /\ parsed.service = base
                   /\ parsed.endpoint = endpoint
                   /\ endpoint = Canon(parsed.method)

(* C3, as claimed: the naming check passes exactly when the endpoint equals  *)
(* the name hyphenated at its lowercase-to-uppercase and letter-to-digit      *)
(* boundaries and lowercased, and every endpoint of a written manifest has    *)
(* that form.                                                                  *)
C3_BoundaryKebabChecked == NamingCheckedBy(BoundaryKebab)

(* C3, amended: the naming check passes exactly when the endpoint equals the *)
(* name with a hyphen before every capital letter (a leading one and each of  *)
(* consecutive ones included, none before a digit) and lowercased, and every  *)
(* endpoint of a written manifest has that form.                               *)
C3_CapitalKebabChecked == NamingCheckedBy(CapitalKebab)

(* C3, witness: a manifest was written for a method whose name has a leading *)
(* capital, consecutive capitals or a digit after a letter.                   *)
C3_Witness ==
    /\ ManifestWritten
    /\ \E parsed \in Lines(stdout) :
          /\ CapitalKebab(parsed.method) # BoundaryKebab(parsed.method)
          /\ parsed.endpoint \in DOMAIN outputFile.endpoints[parsed.service]

-----------------------------------------------------------------------------
(* The end of the run: C1, C6 *)

WriteFailed == \E line \in Lines(stderr) : line.kind = "write-failed"
Untouched == writeCalls = 0 /\ outputFile.kind \in {"absent", "old"}

(* C1, as claimed: when the scan has finished, the manifest is written if   *)
(* and only if the error count is zero; the file is written at most once,    *)
(* and is untouched when the count is not zero.                               *)
C1_WrittenIffNoErrors ==
    /\ pc = "done" => (ManifestWritten <=> errorCount = 0)
    /\ writeCalls <= 1
    /\ errorCount > 0 => Untouched

C1_Gate ==
    /\ writeCalls <= 1
    /\ writeCalls = 1 => pc = "done" /\ errorCount = 0
    /\ ManifestWritten => writeCalls = 1
    /\ pc = "done" => (ManifestWritten <=> (errorCount = 0 /\ ~WriteFailed))
    /\ pc = "done" /\ errorCount = 0 /\ ~ManifestWritten => exitCode = 1
    /\ WriteFailed => errorCount = 0 /\ pc = "done"
    /\ errorCount > 0 => Untouched

C1_NoTouch ==
    errorCount' > 0 =>
        /\ outputFile' = outputFile
        /\ dirExists' = dirExists
        /\ writeCalls' = writeCalls

(* C1, amended: the write is attempted if and only if the error count is     *)
(* zero when the scan finishes, and the manifest is written if and only if,  *)
(* in addition, the directory creation and the file write succeed; there is   *)
(* at most one write per run, only after the scan, and no step taken with a   *)
(* non-zero count touches the output file or its directory.                   *)
C1_WrittenIffNoErrorsAndWriteSucceeds == []C1_Gate /\ [][C1_NoTouch]_vars

(* C1, witness: a run that scanned a class, ended with errors and left the   *)
(* manifest of an earlier run in place.                                       *)
C1_Witness ==
    /\ pc = "done"
    /\ nClasses > 0
    /\ errorCount > 0
    /\ outputFile.kind = "old"

(* C6: a run that has ended has status 0 or 1; status 0 only with the        *)
(* manifest written by the one write of this run; status 1 whenever an error *)
(* was recorded (and then no manifest is written) or the directory creation  *)
(* or the write failed.                                                       *)
C6_ExitStatus ==
    Ended =>
        /\ exitCode \in {0, 1}
        /\ exitCode = 0 => ManifestWritten /\ writeCalls = 1 /\ errorCount = 0
        /\ errorCount > 0 => exitCode = 1 /\ ~ManifestWritten
        /\ WriteFailed => exitCode = 1 /\ ~ManifestWritten
        /\ pc = "crashed" => exitCode = 1 /\ ~ManifestWritten

(* C6, witness: a run without recorded errors whose write failed *)
C6_Witness ==
    /\ pc = "done"
    /\ errorCount = 0
    /\ WriteFailed
    /\ exitCode = 1

-----------------------------------------------------------------------------
(* Record and continue: C7, C9 *)

HasSelfDispatchLiteral(method) ==
    \E i \in DOMAIN method.calls :
        /\ method.calls[i].expression = "PropertyAccessExpression"
        /\ method.calls[i].target = "ThisKeyword"
        /\ method.calls[i].args # << >>
        /\ Head(method.calls[i].args).kind = "StringLiteral"

FallibleWrapper(method) ==
    /\ Head(method.returnType) = "Promise<Result<"
    /\ method.returnType[Len(method.returnType)] = ">>"
    /\ Len(method.returnType) > 2

ClassWithoutBaseLiteral(classDec) ==
    /\ classDec.extends = "Service"
    /\ classDec.base.property = "absent" \/ classDec.base.initializer # "StringLiteral"

C7_RecordAndContinue ==
    /\ \A classDec \in ScanClasses :
          BeginClass(classDec) /\ ClassWithoutBaseLiteral(classDec) =>
             /\ errorCount' = errorCount + 1
             /\ result' = result
             /\ stdout' = stdout
             /\ pc' = "classes"
             /\ exitCode' = exitCode
    /\ \A method \in ScanMethods :
          AnalyzeMethod(method) /\ FallibleWrapper(method) /\ ~HasSelfDispatchLiteral(method) =>
             /\ errorCount' = errorCount + 1
             /\ result' = result
             /\ stdout' = stdout
             /\ usedEndpoints' = usedEndpoints
             /\ pc' = "methods"
             /\ exitCode' = exitCode

(* C7: a service class without a string-literal base and an API-shaped       *)
(* method without a self-dispatch literal each add exactly one to the error  *)
(* counter, add nothing to the result, and leave the scan running; the       *)
(* counter is at all times the number of errors reported in the run.          *)
C7_StructuralErrors ==
    /\ [](errorCount = CountLines(stderr, IsCountedError))
    /\ [][C7_RecordAndContinue]_vars

(* C7, witness: after a class without base, a later class is scanned: a      *)
(* method without endpoint literal was counted, and another method was       *)
(* analyzed and its naming error counted.                                     *)
C7_Witness ==
    /\ pc = "methods"
    /\ nClasses = 2
    /\ errorCount = 3
    /\ \E line \in Lines(stderr) : line.kind = "no-base"
    /\ \E line \in Lines(stderr) : line.kind = "no-endpoint"
    /\ \E line \in Lines(stderr) : line.kind = "naming"
    /\ stdout # EmptyBag

(* C9: analyzing a method whose return type is not the fallible wrapper      *)
(* changes neither the error counter, the used endpoints, the result nor     *)
(* what was reported, whatever calls its body makes.                          *)
C9_NonApiMethodSkipped ==
    [][\A method \in ScanMethods :
          AnalyzeMethod(method) /\ ~FallibleWrapper(method) =>
             UNCHANGED <<errorCount, usedEndpoints, result, stdout, stderr, pc, exitCode>>]_vars

(* C9, witness: two methods were visited, one of them silently: one endpoint *)
(* is in use, one method was parsed and no error was counted.                 *)
C9_Witness ==
    /\ pc = "methods"
    /\ nMethods = 2
    /\ usedEndpoints = {s_get_id}
    /\ BagCardinality(stdout) = 1
    /\ errorCount = 0
    /\ stderr = EmptyBag

-----------------------------------------------------------------------------
(* Namespaces: C2, C8, C10 *)

Namespaces == {parsed.service : parsed \in Lines(stdout)}
EndpointsOf(base) == {parsed.endpoint : parsed \in {l \in Lines(stdout) : l.service = base}}

(* Number of methods parsed in namespace `base` with endpoint literal `endpoint` *)
ParsedWith(base, endpoint) ==
    LET Here(line) == line.service = base /\ line.endpoint = endpoint
    IN  CountLines(stdout, Here)

(* Number of duplicate-endpoint errors reported for `endpoint` in `base` *)
DuplicateErrors(base, endpoint) ==
    LET Here(line) == line.kind = "duplicate" /\ line.service = base /\ line.endpoint = endpoint
    IN  CountLines(stderr, Here)

(* C2: when two analyzed methods of one namespace, of the same class or of   *)
(* two classes declaring the same base, use the same endpoint literal, a     *)
(* duplicate-endpoint error is recorded, the count is above zero and no      *)
(* manifest is written.                                                       *)
C2_DuplicateInNamespaceBlocksManifest ==
    \A base \in Namespaces :
       \A endpoint \in EndpointsOf(base) :
          ParsedWith(base, endpoint) >= 2 =>
             /\ DuplicateErrors(base, endpoint) >= 1
             /\ errorCount > 0
             /\ ~ManifestWritten

(* C8: k >= 2 analyzed methods of a namespace with the same endpoint literal *)
(* add exactly k - 1 duplicate-endpoint errors, and a duplicate is still     *)
(* checked against the naming convention.                                     *)
C8_AllDuplicatesCounted ==
    pc # "crashed" =>
       \A base \in Namespaces :
          \A endpoint \in EndpointsOf(base) :
             /\ DuplicateErrors(base, endpoint) = ParsedWith(base, endpoint) - 1
             /\ \A parsed \in Lines(stdout) :
                   parsed.service = base /\ parsed.endpoint = endpoint
                   /\ endpoint # toKebabCase(parsed.method) =>
                      CopiesIn(NamingError(parsed), stderr) = CopiesIn(parsed, stdout)

(* C10: a written manifest holds, under each base, an entry for every method *)
(* that was parsed in a class declaring that base.                            *)
C10_ManifestComplete ==
    ManifestWritten =>
       \A parsed \in Lines(stdout) :
          /\ parsed.service \in DOMAIN outputFile.endpoints
          /\ parsed.endpoint \in DOMAIN outputFile.endpoints[parsed.service]

-----------------------------------------------------------------------------
(* Type resolution: C4, C5 *)

AllNumericOrBare(members) ==
    \A i \in DOMAIN members : members[i] \in {"none", "NumericLiteral"}

(* C4: the table maps the name of every enumeration analyzed to "number"     *)
(* when each of its initializers is a numeric literal (or it has none), and   *)
(* to "string" otherwise.                                                      *)
C4_EveryEnumMapped ==
    \A enumDec \in enumsSeen :
       /\ MapHas(typeResolutionMap, enumDec.name)
       /\ typeResolutionMap[enumDec.name] =
             IF AllNumericOrBare(enumDec.members) THEN "number" ELSE "string"

ClaimedAliasKind(typeAlias) ==
    IF typeAlias.kind \in {"StringKeyword", "LiteralType", "TemplateLiteralType"} THEN "string"
    ELSE IF typeAlias.kind = "NumberKeyword" THEN "number"
    ELSE typeAlias.name

Declared(typeName) ==
    \/ \E typeAlias \in aliasesSeen : typeAlias.name = typeName
    \/ \E enumDec \in enumsSeen : enumDec.name = typeName

ParameterKindsAsClaimed ==
    \A method \in TypeMethods :
       AnalyzeMethod(method) /\ stdout' # stdout =>
          \A i \in DOMAIN method.params :
             LET emitted == result'[baseName][findEndpointInMethod(method).text]
                               .params[method.params[i].name]
             IN  /\ \A typeAlias \in aliasesSeen :
                       typeAlias.name = method.params[i].type =>
                          emitted = ClaimedAliasKind(typeAlias)
                 /\ ~Declared(method.params[i].type) => emitted = method.params[i].type

(* C5: a parsed method's parameter whose declared type is an alias is        *)
(* emitted as "string" for an alias of the string keyword, of a string        *)
(* literal or of a template literal, as "number" for an alias of the number   *)
(* keyword, and as the alias's name for any other alias; a type name that     *)
(* nothing declares is emitted as written.                                     *)
C5_AliasParameterKinds == [][ParameterKindsAsClaimed]_vars

====
